---- MODULE Spec2Model ----
(***************************************************************************)
(* A model of the PES FastAPI adapter (src/app.py, src/db.py,              *)
(* src/models.py): the resource mappers of db.py as operators, the         *)
(* endpoints of app.py as actions, and the external FHIR server, payment   *)
(* gateway and clock as the environment they talk to.                      *)
(*                                                                         *)
(* Conventions.                                                            *)
(*  - A Python Optional is a sequence of length at most one: None is <<>>  *)
(*    and a present value v is <<v>>.                                      *)
(*  - A date is a day number d standing for 2025-01-0d; a datetime is a    *)
(*    record [day, hour].  isoformat() and str() of dates are table        *)
(*    lookups into the ISO strings, fromisoformat() the inverse lookup.    *)
(*  - A note text is a sequence of lexical tokens (see Tok), so that the   *)
(*    Python repr written by str() and the JSON written by json.dumps()    *)
(*    are different texts, and json.loads() is a parser that can fail.     *)
(***************************************************************************)
EXTENDS Integers, Sequences, FiniteSets, TLC

VARIABLES
    watch_uhid,     \* convert_watch: the uhid query parameter
    watch_data,     \* convert_watch: the WatchData body
    watch_entries,  \* convert_watch: Optional bundle["entry"] built by the mapper
    orders,         \* payment gateway: the orders created so far
    pay_req,        \* the last payment request body received
    pay_resp,       \* the HTTP response to it
    consents,       \* FHIR server: the stored Consent resources
    consent_resp,   \* the HTTP response of the last consent endpoint call
    docs,           \* FHIR server: the stored DocumentReference resources
    meds,           \* FHIR server: the stored MedicationRequest resources
    resources,      \* FHIR server: the stored Patient, Procedure and Task resources
    next_id,        \* FHIR server: the id given to the next created resource
    today,          \* the wall clock's date
    pc,             \* per handler: its position
    op,             \* per handler: the endpoint or job it runs
    req,            \* per handler: the request it received
    loc,            \* per handler: its local variables
    calls,          \* per handler: the upstream requests it issued, with their status
    resp            \* per handler: the response it returned

watchVars   == <<watch_uhid, watch_data, watch_entries>>
payVars     == <<orders, pay_req, pay_resp>>
consentVars == <<consents, consent_resp>>
storeVars   == <<docs, meds, resources, next_id, today>>
procVars    == <<pc, op, req, loc, calls, resp>>
vars        == <<watchVars, payVars, consentVars, storeVars, procVars>>

-----------------------------------------------------------------------------
(* Optionals, sequences *)

None == <<>>
Some(v) == <<v>>
IsNone(x) == x = <<>>

RECURSIVE Flatten(_)
Flatten(ss) == IF ss = <<>> THEN <<>> ELSE Head(ss) \o Flatten(Tail(ss))

SeqsUpTo(S, n) == UNION { [1..k -> S] : k \in 0..n }

Range(s) == { s[i] : i \in DOMAIN s }

-----------------------------------------------------------------------------
(* Bounds of the model *)

MaxWatchEntries == 1   \* entries per WatchData list
MaxDay == 4            \* the clock runs over days 1..MaxDay

(* Dates and datetimes *)

Days == 1..MaxDay

IsoDate == <<"2025-01-01", "2025-01-02", "2025-01-03", "2025-01-04",
             "2025-01-05", "2025-01-06", "2025-01-07">>
IsoMidnight == <<"2025-01-01T00:00:00", "2025-01-02T00:00:00",
                 "2025-01-03T00:00:00", "2025-01-04T00:00:00",
                 "2025-01-05T00:00:00", "2025-01-06T00:00:00",
                 "2025-01-07T00:00:00">>
IsoMorning == <<"2025-01-01T08:00:00", "2025-01-02T08:00:00",
                "2025-01-03T08:00:00", "2025-01-04T08:00:00",
                "2025-01-05T08:00:00", "2025-01-06T08:00:00",
                "2025-01-07T08:00:00">>
IsoNoon == <<"2025-01-01T12:00:00.000001", "2025-01-02T12:00:00.000001",
             "2025-01-03T12:00:00.000001", "2025-01-04T12:00:00.000001",
             "2025-01-05T12:00:00.000001", "2025-01-06T12:00:00.000001",
             "2025-01-07T12:00:00.000001">>

\* date.isoformat(), str(date)
DateIso(d) == IsoDate[d]

\* datetime.isoformat(): hour 0 is midnight, 8 a request's timestamp, 12 now()
DateTimeIso(dt) ==
    IF dt.hour = 0 THEN IsoMidnight[dt.day]
    ELSE IF dt.hour = 8 THEN IsoMorning[dt.day]
    ELSE IsoNoon[dt.day]

\* datetime.combine(d, datetime.min.time())
CombineMidnight(d) == [day |-> d, hour |-> 0]

\* datetime.now() and datetime.now().date()
Now(clock) == [day |-> clock, hour |-> 12]

-----------------------------------------------------------------------------
(* db.py: fhir_watchdata_resources *)

Uhids == {"U1", "U2"}

WatchTs == [day |-> 1, hour |-> 0]

\* WatchDataEntry values the requests are drawn from
WatchEntryValues ==
    { [timestamp |-> WatchTs, sleep_time |-> None, heart_rate |-> None, step_count |-> None],
      [timestamp |-> WatchTs, sleep_time |-> Some(7), heart_rate |-> Some(72), step_count |-> Some(5)],
      [timestamp |-> WatchTs, sleep_time |-> None, heart_rate |-> Some(0), step_count |-> None],
      [timestamp |-> WatchTs, sleep_time |-> Some(7), heart_rate |-> None, step_count |-> Some(0)] }

WatchDataValues ==
    [yearly : SeqsUpTo(WatchEntryValues, MaxWatchEntries),
     monthly : SeqsUpTo(WatchEntryValues, MaxWatchEntries),
     weekly : SeqsUpTo(WatchEntryValues, MaxWatchEntries),
     daily : SeqsUpTo(WatchEntryValues, MaxWatchEntries)]

\* the (code, value, unit) triples of one entry, in the order of the inner loop
WatchMetrics(entry) ==
    << [code |-> "Heart Rate", value |-> entry.heart_rate, unit |-> "beats/minute"],
       [code |-> "Step Count", value |-> entry.step_count, unit |-> "steps"],
       [code |-> "Sleep Duration", value |-> entry.sleep_time, unit |-> "hours"] >>

\* a truthiness test in place of "is not None": a reading of 0 is dropped
WatchEmits_Truthy(value) == ~IsNone(value) /\ value[1] # 0

\* the test of the inner loop: "if value is not None"
WatchEmits(value) == ~IsNone(value)

WatchObservation(uhid, category, entry, m) ==
    [resourceType |-> "Observation",
     identifier |-> uhid,
     status |-> "final",
     category |-> category,
     code |-> m.code,
     subject |-> uhid,
     effectiveDateTime |-> DateTimeIso(entry.timestamp),
     value |-> m.value[1],
     unit |-> m.unit]

WatchEntryObservations(uhid, category, entry) ==
    LET ms == SelectSeq(WatchMetrics(entry), LAMBDA m : WatchEmits(m.value))
    IN  [i \in 1..Len(ms) |-> WatchObservation(uhid, category, entry, ms[i])]

WatchListObservations(uhid, category, entries_list) ==
    Flatten([i \in 1..Len(entries_list) |->
                WatchEntryObservations(uhid, category, entries_list[i])])

fhir_watchdata_resources(uhid, wd) ==
    WatchListObservations(uhid, "yearly", wd.yearly)
    \o WatchListObservations(uhid, "monthly", wd.monthly)
    \o WatchListObservations(uhid, "weekly", wd.weekly)
    \o WatchListObservations(uhid, "daily", wd.daily)

-----------------------------------------------------------------------------
(* Idle values of the variables a specification does not use *)

Procs == {"h1", "h2"}

IdleWatch ==
    /\ watch_uhid = "U1"
    /\ watch_data = [yearly |-> <<>>, monthly |-> <<>>, weekly |-> <<>>, daily |-> <<>>]
    /\ watch_entries = None

IdlePay ==
    /\ orders = <<>>
    /\ pay_req = None
    /\ pay_resp = None

IdleConsent ==
    /\ consents = <<>>
    /\ consent_resp = None

IdleStore ==
    /\ docs = <<>>
    /\ meds = <<>>
    /\ resources = <<>>
    /\ next_id = 1
    /\ today = 1

IdleProcs ==
    /\ pc = [p \in Procs |-> "idle"]
    /\ op = [p \in Procs |-> "none"]
    /\ req = [p \in Procs |-> None]
    /\ loc = [p \in Procs |-> None]
    /\ calls = [p \in Procs |-> <<>>]
    /\ resp = [p \in Procs |-> None]

-----------------------------------------------------------------------------
(* app.py: convert_watch applies the mapper to its body *)

InitWatch ==
    /\ watch_uhid \in Uhids
    /\ watch_data \in WatchDataValues
    /\ watch_entries = None
    /\ IdlePay /\ IdleConsent /\ IdleStore /\ IdleProcs

ConvertWatch ==
    /\ IsNone(watch_entries)
    /\ watch_entries' = Some(fhir_watchdata_resources(watch_uhid, watch_data))
    /\ UNCHANGED <<watch_uhid, watch_data, payVars, consentVars, storeVars, procVars>>

NextWatch == ConvertWatch

SpecWatch == InitWatch /\ [][NextWatch]_vars

-----------------------------------------------------------------------------
(* app.py: create_order and verify_payment, and the payment gateway *)

MaxOrders == 2   \* orders the gateway accepts in one behaviour

RAZORPAY_KEY_SECRET == "key-secret"

Amounts == {1, 100, 250}
Currencies == {"INR", "USD"}
Receipts == {"r1", "r2"}

PaymentRequests ==
    [kind : {"create-order"}, amount : Amounts, currency : Currencies, receipt : Receipts]

\* HMAC-SHA256 of "order_id|payment_id" under a secret, as an uninterpreted term
Hmac(secret, order_id, payment_id) == <<"hmac-sha256", secret, order_id, payment_id>>

OrderIds == {"order_1", "order_2"}
PaymentIds == {"pay_1", "pay_2"}
Signatures ==
    { Hmac(s, o, p) : s \in {RAZORPAY_KEY_SECRET, "other-secret"}, o \in OrderIds, p \in PaymentIds }
    \cup { <<"garbage">> }

VerifyPaymentRequests ==
    [kind : {"verify-payment"}, razorpay_order_id : OrderIds,
     razorpay_payment_id : PaymentIds, razorpay_signature : Signatures]

\* the id the gateway gives to its n-th order
GatewayOrderId(n) == n + 1000

\* the order create_order sends a 400 for: the gateway raised
OrderRefused(detail) == [status |-> 400, detail |-> detail]

\* order_data of create_order
order_data_multiplied_by_one(payment) ==
    [amount |-> payment.amount,
     currency |-> payment.currency,
     receipt |-> payment.receipt,
     payment_capture |-> 1]

order_data(payment) ==
    [amount |-> payment.amount * 100,
     currency |-> payment.currency,
     receipt |-> payment.receipt,
     payment_capture |-> 1]

\* client.order.create(data): the gateway stores the order and returns it with its id
GatewayCreate(data) ==
    [id |-> GatewayOrderId(Len(orders) + 1),
     amount |-> data.amount,
     currency |-> data.currency,
     receipt |-> data.receipt,
     payment_capture |-> data.payment_capture]

create_order ==
    \E payment \in PaymentRequests, accepted \in BOOLEAN :
        /\ Len(orders) < MaxOrders
        /\ pay_req' = Some(payment)
        /\ IF accepted
           THEN LET order == GatewayCreate(order_data(payment))
                IN  /\ orders' = Append(orders, order)
                    /\ pay_resp' = Some([status |-> 200, success |-> TRUE,
                                         order_id |-> order.id,
                                         amount |-> payment.amount,
                                         currency |-> payment.currency])
           ELSE /\ orders' = orders
                /\ pay_resp' = Some(OrderRefused("gateway error"))
        /\ UNCHANGED <<watchVars, consentVars, storeVars, procVars>>

\* client.utility.verify_payment_signature: TRUE, or SignatureVerificationError (FALSE)
verify_payment_signature(params) ==
    params.razorpay_signature
        = Hmac(RAZORPAY_KEY_SECRET, params.razorpay_order_id, params.razorpay_payment_id)

\* a handler that answers success whatever the verification said
verify_payment_response_always_ok(verified) ==
    [status |-> 200, success |-> TRUE, message |-> "Payment verified successfully"]

\* the two exits of verify_payment
verify_payment_response(verified) ==
    IF verified
    THEN [status |-> 200, success |-> TRUE, message |-> "Payment verified successfully"]
    ELSE [status |-> 400, detail |-> "Invalid payment signature"]

verify_payment ==
    \E request \in VerifyPaymentRequests :
        /\ pay_req' = Some(request)
        /\ pay_resp' = Some(verify_payment_response(verify_payment_signature(request)))
        /\ UNCHANGED <<orders, watchVars, consentVars, storeVars, procVars>>

InitPay == IdleWatch /\ IdlePay /\ IdleConsent /\ IdleStore /\ IdleProcs

NextPay == create_order \/ verify_payment

SpecPay == InitPay /\ [][NextPay]_vars

-----------------------------------------------------------------------------
(* db.py: the Consent mappers; app.py: the consent endpoints *)

MaxConsents == 3   \* Consent resources the FHIR server holds

\* A dateTime string is the sequence of the ASCII codes of its characters that
\* vary: "2025-01-" and ":00:00" are the same in every value and sit at the same
\* places, so the order of the sequences is the order of the full strings.
Digit(n) == 48 + n

\* datetime.isoformat() of [day, hour, micro]: the fraction is written only when
\* the microsecond is not 0
ConsentIso(dt) ==
    << Digit(dt.day \div 10), Digit(dt.day % 10), Digit(dt.hour \div 10), Digit(dt.hour % 10) >>
    \o (IF dt.micro = 0 THEN <<>> ELSE << 46, Digit(dt.micro) >>)

\* shorter strings first, then by characters: not the order of Python's str
RECURSIVE StrLess_ShortLex(_, _)
StrLess_ShortLex(a, b) ==
    IF Len(a) # Len(b) THEN Len(a) < Len(b)
    ELSE IF a = <<>> THEN FALSE
    ELSE IF Head(a) # Head(b) THEN Head(a) < Head(b)
    ELSE StrLess_ShortLex(Tail(a), Tail(b))

\* Python's str <: lexicographic by character, a proper prefix is smaller
RECURSIVE StrLess(_, _)
StrLess(a, b) ==
    IF b = <<>> THEN FALSE
    ELSE IF a = <<>> THEN TRUE
    ELSE IF Head(a) # Head(b) THEN Head(a) < Head(b)
    ELSE StrLess(Tail(a), Tail(b))

ConsentTimes ==
    { [day |-> 1, hour |-> 0, micro |-> 0],
      [day |-> 2, hour |-> 0, micro |-> 0],
      [day |-> 1, hour |-> 0, micro |-> 5] }

\* ConsentFormStatus bodies: status 0/1, approval and validation 0/1/2
ConsentStatusValues ==
    { [status |-> 0, approval |-> 2, validation |-> 1, status_timestamp |-> t] : t \in ConsentTimes }
    \cup { [status |-> 1, approval |-> 1, validation |-> 0, status_timestamp |-> t] : t \in ConsentTimes }

\* bodies whose status or approval is not a value of its Literal type
ConsentStatusOutOfSet ==
    { [status |-> 7, approval |-> 1, validation |-> 1, status_timestamp |-> [day |-> 1, hour |-> 0, micro |-> 0]],
      [status |-> 1, approval |-> 9, validation |-> 1, status_timestamp |-> [day |-> 1, hour |-> 0, micro |-> 0]] }

\* the request validation of the body parameter "consent: ConsentFormStatus":
\* status: Literal[0, 1], approval and validation: Literal[0, 1, 2]
ConsentFormStatusValid(body) ==
    /\ body.status \in {0, 1}
    /\ body.approval \in {0, 1, 2}
    /\ body.validation \in {0, 1, 2}

status_map(n) == IF n = 0 THEN "draft" ELSE IF n = 1 THEN "active" ELSE "draft"
approval_map(n) ==
    IF n = 0 THEN "draft" ELSE IF n = 1 THEN "active" ELSE IF n = 2 THEN "rejected" ELSE "draft"

\* the Consent resource of the one-entry bundle
fhir_consent_form_status_resources(uhid, consent_status) ==
    [resourceType |-> "Consent",
     identifier |-> uhid,
     status |-> status_map(consent_status.status),
     patient |-> uhid,
     dateTime |-> Some(ConsentIso(consent_status.status_timestamp)),
     provision_type |-> IF consent_status.validation = 1 THEN "permit" ELSE "deny",
     approval |-> approval_map(consent_status.approval),
     tag |-> "ConsentFormStatus"]

\* the Consent resource of the one-entry bundle: it has no dateTime
fhir_consent_resource_structured(uhid) ==
    [resourceType |-> "Consent",
     identifier |-> uhid,
     status |-> "active",
     patient |-> uhid,
     dateTime |-> None,
     provision_type |-> "permit",
     approval |-> "none",
     tag |-> "ConsentFormData"]

\* POST {FHIR_URL}/Consent answered 201: the server stores the resource under a new id
ConsentCreated(resource) ==
    Append(consents, [id |-> Len(consents) + 1] @@ resource)

\* post_consent_status and post_consent_structured: one POST, then the envelope
PostConsent(endpoint, uhid, body, resource) ==
    \E status \in {201, 500} :
        /\ Len(consents) < MaxConsents
        /\ consents' = IF status < 400 THEN ConsentCreated(resource) ELSE consents
        /\ consent_resp' = Some([endpoint |-> endpoint, uhid |-> uhid, body |-> body,
                                 upstream |-> status, status |-> 200, success |-> status < 400])
        /\ UNCHANGED <<watchVars, payVars, storeVars, procVars>>

\* a body that does not validate is answered 422 before the handler is called
RequestValidationError(endpoint, uhid, body) ==
    /\ consent_resp' = Some([endpoint |-> endpoint, uhid |-> uhid, body |-> body,
                             upstream |-> 0, status |-> 422, detail |-> "literal_error"])
    /\ UNCHANGED <<consents, watchVars, payVars, storeVars, procVars>>

post_consent_status ==
    \E uhid \in Uhids, consent \in ConsentStatusValues \cup ConsentStatusOutOfSet :
        IF ConsentFormStatusValid(consent)
        THEN PostConsent("POST /fhir/consent-form-status", uhid, Some(consent),
                         fhir_consent_form_status_resources(uhid, consent))
        ELSE RequestValidationError("POST /fhir/consent-form-status", uhid, Some(consent))

post_consent_structured ==
    \E uhid \in Uhids :
        PostConsent("POST /fhir/consent-forms", uhid, None,
                    fhir_consent_resource_structured(uhid))

\* GET {FHIR_URL}/Consent?identifier=https://hospital.com/uhid|{uhid}: data["entry"]
ConsentSearch(uhid) ==
    SelectSeq(consents, LAMBDA e : e.identifier = uhid)

\* r.get("dateTime", "")
DateTimeKey(r) == IF IsNone(r.dateTime) THEN <<>> ELSE r.dateTime[1]

\* max(entries, key=...) of a non-empty list: the first entry of maximal key
RECURSIVE MaxByDateTime(_, _)
MaxByDateTime(best, rest) ==
    IF rest = <<>> THEN best
    ELSE IF StrLess(DateTimeKey(best), DateTimeKey(Head(rest)))
         THEN MaxByDateTime(Head(rest), Tail(rest))
         ELSE MaxByDateTime(best, Tail(rest))

\* the try body of the two GET endpoints: what it returns or raises
ConsentTryBody(uhid, tag_code, upstream, entries) ==
    IF upstream # 200
    THEN [raised |-> TRUE, status |-> upstream, detail |-> "FHIR server returned error"]
    ELSE IF entries = <<>>
    THEN [raised |-> TRUE, status |-> 404, detail |-> "No Consent found for UHID"]
    ELSE LET tagged == SelectSeq(entries, LAMBDA e : e.tag = tag_code)
         IN  IF tagged = <<>>
             THEN [raised |-> TRUE, status |-> 404, detail |-> "No ConsentFormStatus found for UHID"]
             ELSE [raised |-> FALSE, status |-> 200,
                   data |-> MaxByDateTime(Head(tagged), Tail(tagged))]

\* "except Exception as e: raise HTTPException(status_code=500, detail=str(e))":
\* HTTPException is an Exception, so the handler catches what the body raised
ConsentExcept(outcome) ==
    IF outcome.raised
    THEN [status |-> 500, detail |-> <<outcome.status, outcome.detail>>]
    ELSE [status |-> 200, success |-> TRUE, data |-> outcome.data]

GetConsent(endpoint, tag_code) ==
    \E uhid \in Uhids, upstream \in {200, 401, 500} :
        LET entries == IF upstream = 200 THEN ConsentSearch(uhid) ELSE <<>>
            answer == ConsentExcept(ConsentTryBody(uhid, tag_code, upstream, entries))
        IN  /\ consent_resp' = Some([endpoint |-> endpoint, uhid |-> uhid,
                                     upstream |-> upstream, tag |-> tag_code,
                                     status |-> answer.status, answer |-> answer])
            /\ UNCHANGED <<consents, watchVars, payVars, storeVars, procVars>>

get_consent_form_status == GetConsent("GET /fhir/consent-form-status", "ConsentFormStatus")

get_consent_form == GetConsent("GET /fhir/consent-form", "ConsentFormData")

InitConsent == IdleWatch /\ IdlePay /\ IdleConsent /\ IdleStore /\ IdleProcs

NextConsent ==
    \/ post_consent_status
    \/ post_consent_structured
    \/ get_consent_form_status
    \/ get_consent_form

SpecConsent == InitConsent /\ [][NextConsent]_vars

-----------------------------------------------------------------------------
(* Handlers that make several upstream calls: one step per call *)

MaxCreated == 3   \* resources the FHIR server creates in one behaviour

\* a handler is free to take a request
Free(p) == pc[p] \in {"idle", "done"}

\* the handler takes a request: its locals and its call log start empty
Begin(p, name, request, at, locals, response) ==
    /\ Free(p)
    /\ op' = [op EXCEPT ![p] = name]
    /\ req' = [req EXCEPT ![p] = Some(request)]
    /\ pc' = [pc EXCEPT ![p] = at]
    /\ loc' = [loc EXCEPT ![p] = Some(locals)]
    /\ calls' = [calls EXCEPT ![p] = <<>>]
    /\ resp' = [resp EXCEPT ![p] = response]

\* an upstream request and the status it was answered with; 0: no answer, the
\* requests library raised
Call(p, method, status) ==
    calls' = [calls EXCEPT ![p] = Append(@, [method |-> method, status |-> status])]

Return(p, r) ==
    /\ pc' = [pc EXCEPT ![p] = "done"]
    /\ resp' = [resp EXCEPT ![p] = Some(r)]

Failure(message) == [success |-> FALSE, message |-> message]

-----------------------------------------------------------------------------
(* db.py: fhir_preop_checklist_resources; app.py: the pre-op checklist endpoints *)

DocumentNames == {"Blood Sugar Report", "ECG"}

\* DocumentEntry bodies: validated_by is optional
DocumentEntries ==
    [document_name : DocumentNames, validated_by : {None, Some("Nurse A")}]

MaxDocuments == 1   \* documents in one PreOpChecklist body

PreOpChecklists == SeqsUpTo(DocumentEntries, MaxDocuments)

\* d.validated_by or "N/A"
OrNA(x) == IF IsNone(x) THEN "N/A" ELSE x[1]

DocumentReference(uhid, d) ==
    [resourceType |-> "DocumentReference",
     identifier |-> uhid,
     status |-> "current",
     type_text |-> d.document_name,
     subject |-> uhid,
     authenticator |-> OrNA(d.validated_by)]

\* bundle["entry"]: one DocumentReference per document
fhir_preop_checklist_resources(uhid, checklist) ==
    [i \in 1..Len(checklist) |-> DocumentReference(uhid, checklist[i])]

post_preop_checklist_begin(p) ==
    \E uhid \in Uhids, checklist \in PreOpChecklists :
        /\ next_id + Len(checklist) <= MaxCreated + 1
        /\ LET entries == fhir_preop_checklist_resources(uhid, checklist)
           IN  IF entries = <<>>
               THEN Begin(p, "post_preop_checklist", [uhid |-> uhid, checklist |-> checklist],
                          "done", [entries |-> entries, i |-> 1],
                          Some([success |-> TRUE,
                                message |-> "All DocumentReference resources posted successfully."]))
               ELSE Begin(p, "post_preop_checklist", [uhid |-> uhid, checklist |-> checklist],
                          "post", [entries |-> entries, i |-> 1], None)
        /\ UNCHANGED <<watchVars, payVars, consentVars, storeVars>>

\* one turn of the loop: POST {FHIR_URL}/DocumentReference with entry i
post_preop_checklist_post(p) ==
    /\ pc[p] = "post" /\ op[p] = "post_preop_checklist"
    /\ \E status \in {201, 500} :
          LET l == loc[p][1]
          IN  /\ Call(p, "POST", status)
              /\ IF status >= 400
                 THEN /\ Return(p, Failure("FHIR server error"))
                      /\ UNCHANGED <<docs, next_id, loc>>
                 ELSE /\ docs' = Append(docs, [id |-> next_id] @@ l.entries[l.i])
                      /\ next_id' = next_id + 1
                      /\ loc' = [loc EXCEPT ![p] = Some([l EXCEPT !.i = l.i + 1])]
                      /\ IF l.i = Len(l.entries)
                         THEN Return(p, [success |-> TRUE,
                                   message |-> "All DocumentReference resources posted successfully."])
                         ELSE UNCHANGED <<pc, resp>>
    /\ UNCHANGED <<watchVars, payVars, consentVars, resources, meds, today, op, req>>

\* GET {FHIR_URL}/DocumentReference?subject=Patient/{uhid}&type:text={document_name}
DocumentSearch(uhid, document_name) ==
    SelectSeq(docs, LAMBDA r : r.subject = uhid /\ r.type_text = document_name)

\* delete_preop_document without its "if not entries" return
delete_after_search_unguarded(status, entries) ==
    IF status >= 400 THEN "search-error" ELSE "loop"

\* delete_preop_document after the search: the two early returns, or the loop
delete_after_search(status, entries) ==
    IF status >= 400 THEN "search-error"
    ELSE IF entries = <<>> THEN "not-found"
    ELSE "loop"

\* the loop of delete_preop_document at index i: its next turn or its final return
DeleteLoop(p, entries, i, deleted_docs) ==
    /\ loc' = [loc EXCEPT ![p] = Some([entries |-> entries, i |-> i, deleted_docs |-> deleted_docs])]
    /\ IF i > Len(entries)
       THEN Return(p, [success |-> TRUE, message |-> "Deleted document(s) successfully.",
                       deleted |-> deleted_docs])
       ELSE /\ pc' = [pc EXCEPT ![p] = "delete"]
            /\ resp' = [resp EXCEPT ![p] = None]

\* delete_preop_document up to and including its search
delete_preop_document_search(p) ==
    \E uhid \in Uhids, document_name \in DocumentNames, status \in {200, 500} :
        LET entries == IF status = 200 THEN DocumentSearch(uhid, document_name) ELSE <<>>
            way == delete_after_search(status, entries)
        IN  /\ Free(p)
            /\ op' = [op EXCEPT ![p] = "delete_preop_document"]
            /\ req' = [req EXCEPT ![p] = Some([uhid |-> uhid, document_name |-> document_name])]
            /\ calls' = [calls EXCEPT ![p] = << [method |-> "GET", status |-> status] >>]
            /\ IF way = "search-error"
               THEN /\ Return(p, Failure("FHIR search error"))
                    /\ loc' = [loc EXCEPT ![p] = Some([entries |-> entries, i |-> 1, deleted_docs |-> <<>>])]
               ELSE IF way = "not-found"
               THEN /\ Return(p, Failure("No document found"))
                    /\ loc' = [loc EXCEPT ![p] = Some([entries |-> entries, i |-> 1, deleted_docs |-> <<>>])]
               ELSE DeleteLoop(p, entries, 1, <<>>)
            /\ UNCHANGED <<watchVars, payVars, consentVars, storeVars>>

\* one turn of the loop: DELETE {FHIR_URL}/DocumentReference/{doc_id}
delete_preop_document_delete(p) ==
    /\ pc[p] = "delete" /\ op[p] = "delete_preop_document"
    /\ \E status \in {204, 500} :
          LET l == loc[p][1]
              doc_id == l.entries[l.i].id
          IN  /\ Call(p, "DELETE", status)
              /\ IF status \in {200, 204}
                 THEN /\ docs' = SelectSeq(docs, LAMBDA r : r.id # doc_id)
                      /\ DeleteLoop(p, l.entries, l.i + 1,
                                    Append(l.deleted_docs, [document_name |-> l.entries[l.i].type_text,
                                                            document_id |-> doc_id]))
                 ELSE /\ Return(p, Failure("Failed to delete document"))
                      /\ UNCHANGED <<docs, loc>>
    /\ UNCHANGED <<watchVars, payVars, consentVars, resources, meds, next_id, today, op, req>>

\* what the client gets when an exception leaves the endpoint function: the
\* framework's answer to an unhandled exception
Unhandled == [status |-> 500, body |-> "Internal Server Error"]

\* updated_doc of update_single_document
UpdatedDocument(uhid, doc_id, d) == [id |-> doc_id] @@ DocumentReference(uhid, d)

\* update_single_document up to and including its search; it has no try: a
\* request that raises (status 0) leaves the function
update_single_document_search(p) ==
    \E uhid \in Uhids, doc_entry \in DocumentEntries, status \in {200, 500, 0} :
        LET entries == IF status = 200 THEN DocumentSearch(uhid, doc_entry.document_name) ELSE <<>>
        IN  /\ Free(p)
            /\ op' = [op EXCEPT ![p] = "update_single_document"]
            /\ req' = [req EXCEPT ![p] = Some([uhid |-> uhid, doc_entry |-> doc_entry])]
            /\ calls' = [calls EXCEPT ![p] = << [method |-> "GET", status |-> status] >>]
            /\ loc' = [loc EXCEPT ![p] = Some([entries |-> entries])]
            /\ IF status = 0 THEN Return(p, Unhandled)
               ELSE IF status >= 400 THEN Return(p, Failure("FHIR search error"))
               ELSE IF entries = <<>> THEN Return(p, Failure("No document found"))
               ELSE /\ pc' = [pc EXCEPT ![p] = "put"]
                    /\ resp' = [resp EXCEPT ![p] = None]
            /\ UNCHANGED <<watchVars, payVars, consentVars, storeVars>>

\* PUT {FHIR_URL}/DocumentReference/{doc_id} with updated_doc, for the first entry
update_single_document_put(p) ==
    /\ pc[p] = "put" /\ op[p] = "update_single_document"
    /\ \E status \in {200, 500, 0} :
          LET r == req[p][1]
              doc_id == loc[p][1].entries[1].id
              updated_doc == UpdatedDocument(r.uhid, doc_id, r.doc_entry)
          IN  /\ Call(p, "PUT", status)
              /\ docs' = IF status \in {200, 201}
                         THEN [i \in DOMAIN docs |-> IF docs[i].id = doc_id THEN updated_doc ELSE docs[i]]
                         ELSE docs
              /\ IF status = 0 THEN Return(p, Unhandled)
                 ELSE IF status \notin {200, 201} THEN Return(p, Failure("Failed to update document"))
                 ELSE Return(p, [success |-> TRUE, message |-> "Document updated successfully.",
                                 document_id |-> doc_id])
    /\ UNCHANGED <<watchVars, payVars, consentVars, resources, meds, next_id, today, op, req, loc>>

InitPreop == IdleWatch /\ IdlePay /\ IdleConsent /\ IdleStore /\ IdleProcs

NextPreop ==
    \/ post_preop_checklist_begin("h1")
    \/ post_preop_checklist_post("h1")
    \/ delete_preop_document_search("h1")
    \/ delete_preop_document_delete("h1")
    \/ update_single_document_search("h1")
    \/ update_single_document_put("h1")

SpecPreop == InitPreop /\ [][NextPreop]_vars

-----------------------------------------------------------------------------
(* Note texts: str(), json.dumps() and json.loads() on lists of dose dicts *)

\* A text is a sequence of tokens.  Kinds: "p" punctuation, "sq" a string in
\* single quotes, "dq" a string in double quotes, "w" a bare word (None, null),
\* "enum" the repr of an Enum member, <DosePeriod.x: 'x'>, and "planned" the
\* phrase "Planned duration: n days" the auto-complete job looks for.
Tok(k, v) == [k |-> k, v |-> v]
P(c) == Tok("p", c)
Sq(x) == Tok("sq", x)
Dq(x) == Tok("dq", x)
W(x) == Tok("w", x)

DosePeriods == {"morning", "afternoon", "night"}

\* repr() of one dict of the list fhir_medication_resources builds: period is a
\* DosePeriod member, taken_timestamp a str or None
PyReprDose(d) ==
    << P("{"), Sq("day"), P(":"), Sq(d.day), P(","),
       Sq("period"), P(":"), Tok("enum", d.period), P(","),
       Sq("taken_timestamp"), P(":"),
       IF IsNone(d.taken_timestamp) THEN W("None") ELSE Sq(d.taken_timestamp[1]),
       P("}") >>

\* json.dumps() of one dose dict: an Enum member that is a str is written as its value
JsonDose(d) ==
    << P("{"), Dq("day"), P(":"), Dq(d.day), P(","),
       Dq("period"), P(":"), Dq(d.period), P(","),
       Dq("taken_timestamp"), P(":"),
       IF IsNone(d.taken_timestamp) THEN W("null") ELSE Dq(d.taken_timestamp[1]),
       P("}") >>

\* "[" item ", " item ... "]"
RECURSIVE JoinItems(_)
JoinItems(items) ==
    IF items = <<>> THEN <<>>
    ELSE IF Len(items) = 1 THEN items[1]
    ELSE items[1] \o << P(",") >> \o JoinItems(Tail(items))

\* str(list)
PyStr(doses) == << P("[") >> \o JoinItems([i \in 1..Len(doses) |-> PyReprDose(doses[i])]) \o << P("]") >>

\* json.dumps(list)
JsonDumps(doses) == << P("[") >> \o JoinItems([i \in 1..Len(doses) |-> JsonDose(doses[i])]) \o << P("]") >>

\* tokens of one dose object
DoseTokens == Len(JsonDose([day |-> "", period |-> "", taken_timestamp |-> None]))

\* whether DoseTokens tokens are a JSON object with the keys day, period, taken_timestamp
IsJsonDose(t) ==
    /\ t[1] = P("{") /\ t[2] = Dq("day") /\ t[3] = P(":") /\ t[4].k = "dq"
    /\ t[5] = P(",") /\ t[6] = Dq("period") /\ t[7] = P(":") /\ t[8].k = "dq"
    /\ t[9] = P(",") /\ t[10] = Dq("taken_timestamp") /\ t[11] = P(":")
    /\ (t[12].k = "dq" \/ t[12] = W("null"))
    /\ t[13] = P("}")

DoseOfJson(t) ==
    [day |-> t[4].v, period |-> t[8].v,
     taken_timestamp |-> IF t[12].k = "dq" THEN Some(t[12].v) ELSE None]

Undecodable == [ok |-> FALSE, value |-> <<>>]

\* the items of a JSON array after its "[": objects separated by ",", up to "]"
RECURSIVE JsonItems(_)
JsonItems(t) ==
    IF Len(t) < DoseTokens + 1 \/ ~IsJsonDose(SubSeq(t, 1, DoseTokens)) THEN Undecodable
    ELSE LET first == DoseOfJson(SubSeq(t, 1, DoseTokens))
             after == SubSeq(t, DoseTokens + 1, Len(t))
         IN  IF after = << P("]") >> THEN [ok |-> TRUE, value |-> << first >>]
             ELSE IF Head(after) # P(",") THEN Undecodable
             ELSE LET more == JsonItems(Tail(after))
                  IN  IF more.ok THEN [ok |-> TRUE, value |-> << first >> \o more.value]
                      ELSE Undecodable

\* json.loads(text) on the texts of this program: a JSON array of dose objects
\* is decoded to the list of dicts, anything else (single quotes, None, an Enum
\* repr, a phrase) raises JSONDecodeError
JsonLoads(text) ==
    IF text = << P("["), P("]") >> THEN [ok |-> TRUE, value |-> <<>>]
    ELSE IF Len(text) < 2 \/ Head(text) # P("[") THEN Undecodable
    ELSE JsonItems(Tail(text))

-----------------------------------------------------------------------------
(* db.py: fhir_medication_resources *)

TabletNames == {"A", "a"}

\* the patients of the medication requests
MedUhids == {"U1"}

\* TabletPrescriptionEntry bodies: doses_taken is empty or holds one dose, with
\* or without a timestamp; the last one is already completed
TabletValues ==
    { [tablet_name |-> "A", prescribed_date |-> 1, duration_days |-> 5,
       doses_taken |-> <<>>, completed |-> 0],
      [tablet_name |-> "A", prescribed_date |-> 1, duration_days |-> 1,
       doses_taken |-> << [day |-> 1, period |-> "morning", taken_timestamp |-> None] >>,
       completed |-> 0],
      [tablet_name |-> "a", prescribed_date |-> 2, duration_days |-> 1,
       doses_taken |-> << [day |-> 1, period |-> "night",
                           taken_timestamp |-> Some([day |-> 1, hour |-> 8])] >>,
       completed |-> 0],
      [tablet_name |-> "A", prescribed_date |-> 1, duration_days |-> 3,
       doses_taken |-> <<>>, completed |-> 1] }

\* the dict the mapper builds for one DoseEntry
MapperDose(d) ==
    [day |-> DateIso(d.day),
     period |-> d.period,
     taken_timestamp |-> IF IsNone(d.taken_timestamp) THEN None
                         ELSE Some(DateTimeIso(d.taken_timestamp[1]))]

\* the MedicationRequest of one tablet; a field a payload may leave out is an Optional
MedicationRequest(uhid, t) ==
    [resourceType |-> "MedicationRequest",
     identifier |-> Some(uhid),
     status |-> IF t.completed = 0 THEN "active" ELSE "completed",
     subject |-> Some(uhid),
     authoredOn |-> Some(DateTimeIso(CombineMidnight(t.prescribed_date))),
     name |-> t.tablet_name,
     duration |-> t.duration_days,
     note |-> << PyStr([i \in 1..Len(t.doses_taken) |-> MapperDose(t.doses_taken[i])]) >>]

\* bundle["entry"]: one MedicationRequest per tablet
fhir_medication_resources(uhid, tablets) ==
    [i \in 1..Len(tablets) |-> MedicationRequest(uhid, tablets[i])]

-----------------------------------------------------------------------------
(* The FHIR server's MedicationRequest searches, served in pages *)

PageSize == 1   \* entries the server puts in one page of a search result

\* the stored resources a search matches, in the server's order
Listing(query) ==
    SelectSeq(meds, LAMBDA r :
        /\ (query.subject # None => r.subject = query.subject)
        /\ (query.status # None => r.status = query.status[1]))

\* the Bundle the server answers GET url with: the url names the search and the page
Page(url) ==
    LET all == Listing(url.query)
        from == (url.page - 1) * PageSize + 1
        to == IF url.page * PageSize < Len(all) THEN url.page * PageSize ELSE Len(all)
    IN  [entry |-> SubSeq(all, from, to),
         link |-> << [relation |-> "self", url |-> url] >>
                  \o (IF to < Len(all)
                      THEN << [relation |-> "next", url |-> [url EXCEPT !.page = url.page + 1]] >>
                      ELSE <<>>)]

\* the body of an error answer: an OperationOutcome, which has no entry and no link
OperationOutcome == [entry |-> <<>>, link |-> <<>>]

\* a reader that looks at the first link only, which is the page's own
NextLink_FirstLinkOnly(data) ==
    IF data.link # <<>> /\ data.link[1].relation = "next" THEN Some(data.link[1].url) ELSE None

\* next((l.get("url") for l in data.get("link", []) if l.get("relation") == "next"), None)
NextLink(data) ==
    LET nexts == SelectSeq(data.link, LAMBDA l : l.relation = "next")
    IN  IF nexts = <<>> THEN None ELSE Some(nexts[1].url)

FirstPage(subject, status) == [query |-> [subject |-> subject, status |-> status], page |-> 1]

-----------------------------------------------------------------------------
(* app.py: the medication endpoints *)

MaxTablets == 1   \* tablets in one TabletPrescribed body
MaxMeds == 2      \* MedicationRequests the FHIR server creates in one behaviour
MaxNotes == 3     \* notes a stored MedicationRequest grows to

TabletsPrescribed == SeqsUpTo(TabletValues, MaxTablets)

\* how the server answers a GET: a page, an error with a JSON body, or nothing
\* the requests library can decode (it raises)
GetOutcomes == {"ok", "error", "raise"}

GetStatus(outcome) == IF outcome = "ok" THEN 200 ELSE IF outcome = "error" THEN 500 ELSE 0

\* response.json() of the answer to GET url
GetData(outcome, url) == IF outcome = "ok" THEN Page(url) ELSE OperationOutcome

\* PUT {FHIR_URL}/MedicationRequest/{id} answered 200: the payload replaces the resource
MedReplaced(payload) ==
    [i \in DOMAIN meds |-> IF meds[i].id = payload.id THEN payload ELSE meds[i]]

\* convert_medications_to_fhir: the mapper's bundle is the answer
convert_medications_to_fhir(p) ==
    \E uhid \in MedUhids, tablets \in TabletsPrescribed :
        /\ Begin(p, "convert_medications_to_fhir", [uhid |-> uhid, tablets |-> tablets],
                 "done", [i |-> 1],
                 Some([success |-> TRUE, fhir_bundle |-> fhir_medication_resources(uhid, tablets)]))
        /\ UNCHANGED <<watchVars, payVars, consentVars, storeVars>>

PostedMessage(n) == [success |-> TRUE, message |-> "active MedicationRequest(s) posted successfully.",
                     posted_count |-> n]

post_medications_begin(p) ==
    \E uhid \in MedUhids, tablets \in TabletsPrescribed :
        /\ next_id + Len(tablets) <= MaxMeds + 1
        /\ LET entries == fhir_medication_resources(uhid, tablets)
           IN  Begin(p, "post_medications", [uhid |-> uhid, tablets |-> tablets],
                     IF entries = <<>> THEN "done" ELSE "post",
                     [entries |-> entries, i |-> 1, posted_count |-> 0],
                     IF entries = <<>> THEN Some(PostedMessage(0)) ELSE None)
        /\ UNCHANGED <<watchVars, payVars, consentVars, storeVars>>

\* one turn of the loop: an entry that is not active is passed over, an active
\* one is sent with POST {FHIR_URL}/MedicationRequest
post_medications_post(p) ==
    /\ pc[p] = "post" /\ op[p] = "post_medications"
    /\ LET l == loc[p][1]
           med == l.entries[l.i]
           last == l.i = Len(l.entries)
       IN  IF med.status # "active"
           THEN /\ loc' = [loc EXCEPT ![p] = Some([l EXCEPT !.i = l.i + 1])]
                /\ IF last THEN Return(p, PostedMessage(l.posted_count))
                   ELSE UNCHANGED <<pc, resp>>
                /\ UNCHANGED <<meds, next_id, calls>>
           ELSE \E status \in {201, 500} :
                  /\ Call(p, "POST", status)
                  /\ IF status >= 400
                     THEN /\ Return(p, Failure("Error posting MedicationRequest"))
                          /\ UNCHANGED <<meds, next_id, loc>>
                     ELSE /\ meds' = Append(meds, [id |-> next_id] @@ med)
                          /\ next_id' = next_id + 1
                          /\ loc' = [loc EXCEPT ![p] =
                                        Some([l EXCEPT !.i = l.i + 1, !.posted_count = l.posted_count + 1])]
                          /\ IF last THEN Return(p, PostedMessage(l.posted_count + 1))
                             ELSE UNCHANGED <<pc, resp>>
    /\ UNCHANGED <<watchVars, payVars, consentVars, resources, docs, today, op, req>>

get_medications_begin(p) ==
    \E uhid \in MedUhids :
        /\ Begin(p, "get_medications", [uhid |-> uhid], "get",
                 [url |-> Some(FirstPage(Some(uhid), None)), all_medications |-> <<>>], None)
        /\ UNCHANGED <<watchVars, payVars, consentVars, storeVars>>

\* one turn of "while url": GET url, take its entries, follow its next link
get_medications_get(p) ==
    /\ pc[p] = "get" /\ op[p] = "get_medications"
    /\ \E outcome \in GetOutcomes :
          LET l == loc[p][1]
              data == GetData(outcome, l.url[1])
              all == l.all_medications \o data.entry
              next == NextLink(data)
          IN  /\ Call(p, "GET", GetStatus(outcome))
              /\ IF outcome = "raise"
                 THEN /\ Return(p, [success |-> FALSE, medications |-> <<>>, error |-> "exception"])
                      /\ UNCHANGED loc
                 ELSE /\ loc' = [loc EXCEPT ![p] = Some([url |-> next, all_medications |-> all])]
                      /\ IF IsNone(next)
                         THEN Return(p, [success |-> TRUE, medications |-> all])
                         ELSE UNCHANGED <<pc, resp>>
    /\ UNCHANGED <<watchVars, payVars, consentVars, storeVars, op, req>>

\* an entry whose doses_taken is empty when json.loads raises
ActiveMedication_EmptyOnError(res) ==
    [id |-> res.id,
     tablet_name |-> res.name,
     status |-> res.status,
     authoredOn |-> res.authoredOn,
     duration_days |-> res.duration,
     doses_taken |-> [decoded |-> JsonLoads(res.note[1]).ok,
                      list |-> IF JsonLoads(res.note[1]).ok THEN JsonLoads(res.note[1]).value ELSE <<>>]]

\* the entry get_active_medications reports for one resource: doses_taken is
\* json.loads of the first note's text or, when that raises, the list [note_text]
ActiveMedication(res) ==
    LET note_text == res.note[1]
        loaded == JsonLoads(note_text)
    IN  [id |-> res.id,
         tablet_name |-> res.name,
         status |-> res.status,
         authoredOn |-> res.authoredOn,
         duration_days |-> res.duration,
         doses_taken |-> IF loaded.ok THEN [decoded |-> TRUE, list |-> loaded.value]
                         ELSE [decoded |-> FALSE, list |-> << note_text >>]]

get_active_medications_begin(p) ==
    \E uhid \in MedUhids :
        /\ Begin(p, "get_active_medications", [uhid |-> uhid], "get",
                 [url |-> Some(FirstPage(Some(uhid), Some("active"))), all_active_meds |-> <<>>], None)
        /\ UNCHANGED <<watchVars, payVars, consentVars, storeVars>>

get_active_medications_get(p) ==
    /\ pc[p] = "get" /\ op[p] = "get_active_medications"
    /\ \E outcome \in GetOutcomes :
          LET l == loc[p][1]
              data == GetData(outcome, l.url[1])
              all == l.all_active_meds
                       \o [i \in 1..Len(data.entry) |-> ActiveMedication(data.entry[i])]
              next == NextLink(data)
          IN  /\ Call(p, "GET", GetStatus(outcome))
              /\ IF outcome = "raise"
                 THEN /\ Return(p, [success |-> FALSE, error |-> "exception"])
                      /\ UNCHANGED loc
                 ELSE /\ loc' = [loc EXCEPT ![p] = Some([url |-> next, all_active_meds |-> all])]
                      /\ IF IsNone(next)
                         THEN Return(p, [success |-> TRUE, count |-> Len(all), active_medications |-> all])
                         ELSE UNCHANGED <<pc, resp>>
    /\ UNCHANGED <<watchVars, payVars, consentVars, storeVars, op, req>>

\* UpdateDoseRequest bodies
UpdateDoseRequests ==
    { [tablet_name |-> n, dose_day |-> d.day, dose_period |-> d.period, taken_timestamp |-> d.at] :
        n \in TabletNames,
        d \in { [day |-> 1, period |-> "morning", at |-> None],
                [day |-> 2, period |-> "night", at |-> Some([day |-> 2, hour |-> 8])] } }

\* the loop over res["note"] of update_dose_taken: the first note whose text
\* json.loads decodes to a list is the list of doses, no such note is []
RECURSIVE ExistingDoses(_)
ExistingDoses(notes) ==
    IF notes = <<>> THEN <<>>
    ELSE LET loaded == JsonLoads(Head(notes))
         IN  IF loaded.ok THEN loaded.value ELSE ExistingDoses(Tail(notes))

\* body.taken_timestamp.isoformat() if body.taken_timestamp else datetime.now().isoformat()
TakenStamp(body, clock) ==
    IF IsNone(body.taken_timestamp) THEN DateTimeIso(Now(clock))
    ELSE DateTimeIso(body.taken_timestamp[1])

Matches(d, body) == d.day = DateIso(body.dose_day) /\ d.period = body.dose_period

\* "Update or append new dose": the first dict of that day and period gets the
\* timestamp, and when there is none a new dict is appended
PatchDoses(doses, body, clock) ==
    IF \E i \in DOMAIN doses : Matches(doses[i], body)
    THEN LET first == CHOOSE i \in DOMAIN doses :
                         /\ Matches(doses[i], body)
                         /\ \A j \in 1..(i - 1) : ~Matches(doses[j], body)
         IN  [doses EXCEPT ![first].taken_timestamp = Some(TakenStamp(body, clock))]
    ELSE Append(doses, [day |-> DateIso(body.dose_day),
                        period |-> body.dose_period,
                        taken_timestamp |-> Some(TakenStamp(body, clock))])

\* a payload that leaves out the subject as well
DosePayload_WithoutSubject(res, body, clock) ==
    [id |-> res.id,
     resourceType |-> "MedicationRequest",
     identifier |-> None,
     status |-> res.status,
     subject |-> None,
     authoredOn |-> None,
     name |-> res.name,
     duration |-> res.duration,
     note |-> Append(res.note, JsonDumps(PatchDoses(ExistingDoses(res.note), body, clock)))]

\* a payload built from the resource as it is stored when the PUT is sent
DosePayload_FromStored(res, body, clock) ==
    LET stored == CHOOSE m \in Range(meds) : m.id = res.id
    IN  [id |-> res.id,
         resourceType |-> "MedicationRequest",
         identifier |-> None,
         status |-> stored.status,
         subject |-> stored.subject,
         authoredOn |-> None,
         name |-> stored.name,
         duration |-> stored.duration,
         note |-> Append(stored.note, JsonDumps(PatchDoses(ExistingDoses(stored.note), body, clock)))]

\* update_payload of update_dose_taken: identifier, authoredOn and meta are not in it
DosePayload(res, body, clock) ==
    [id |-> res.id,
     resourceType |-> "MedicationRequest",
     identifier |-> None,
     status |-> res.status,
     subject |-> res.subject,
     authoredOn |-> None,
     name |-> res.name,
     duration |-> res.duration,
     note |-> Append(res.note, JsonDumps(PatchDoses(ExistingDoses(res.note), body, clock)))]

update_dose_taken_begin(p) ==
    \E uhid \in MedUhids, body \in UpdateDoseRequests :
        /\ \A i \in DOMAIN meds : Len(meds[i].note) < MaxNotes
        /\ Begin(p, "update_dose_taken", [uhid |-> uhid, body |-> body], "get",
                 [url |-> Some(FirstPage(Some(uhid), None)), all_medications |-> <<>>,
                  i |-> 1, updated_count |-> 0], None)
        /\ UNCHANGED <<watchVars, payVars, consentVars, storeVars>>

UpdatedMessage(n) == [success |-> TRUE, message |-> "medication(s) updated for tablet",
                      updated_count |-> n]

\* one turn of the fetch loop: GET url, extend all_medications, follow the next link
update_dose_taken_get(p) ==
    /\ pc[p] = "get" /\ op[p] = "update_dose_taken"
    /\ \E outcome \in GetOutcomes :
          LET l == loc[p][1]
              data == GetData(outcome, l.url[1])
              all == l.all_medications \o data.entry
              next == NextLink(data)
          IN  /\ Call(p, "GET", GetStatus(outcome))
              /\ IF outcome = "raise"
                 THEN /\ Return(p, [success |-> FALSE, error |-> "exception"])
                      /\ UNCHANGED loc
                 ELSE /\ loc' = [loc EXCEPT ![p] = Some([l EXCEPT !.url = next, !.all_medications = all])]
                      /\ IF ~IsNone(next) THEN UNCHANGED <<pc, resp>>
                         ELSE IF all = <<>> THEN Return(p, UpdatedMessage(0))
                         ELSE /\ pc' = [pc EXCEPT ![p] = "put"]
                              /\ UNCHANGED resp
    /\ UNCHANGED <<watchVars, payVars, consentVars, storeVars, op, req>>

\* a loop that goes on after a refused PUT
PutRefused_Never(status) == FALSE

\* "if patch_resp.status_code >= 400"
PutRefused(status) == status >= 400

\* one turn of the loop over all_medications: an entry of another tablet is
\* passed over, a matching one is rewritten with PUT
update_dose_taken_put(p) ==
    /\ pc[p] = "put" /\ op[p] = "update_dose_taken"
    /\ LET l == loc[p][1]
           body == req[p][1].body
           res == l.all_medications[l.i]
           last == l.i = Len(l.all_medications)
       IN  IF res.name # body.tablet_name
           THEN /\ loc' = [loc EXCEPT ![p] = Some([l EXCEPT !.i = l.i + 1])]
                /\ IF last THEN Return(p, UpdatedMessage(l.updated_count))
                   ELSE UNCHANGED <<pc, resp>>
                /\ UNCHANGED <<meds, calls>>
           ELSE \E status \in {200, 500} :
                  /\ Call(p, "PUT", status)
                  /\ meds' = IF status < 400 THEN MedReplaced(DosePayload(res, body, today))
                             ELSE meds
                  /\ IF PutRefused(status)
                     THEN /\ Return(p, Failure("Failed to update"))
                          /\ UNCHANGED loc
                     ELSE /\ loc' = [loc EXCEPT ![p] =
                                        Some([l EXCEPT !.i = l.i + 1, !.updated_count = l.updated_count + 1])]
                          /\ IF last THEN Return(p, UpdatedMessage(l.updated_count + 1))
                             ELSE UNCHANGED <<pc, resp>>
    /\ UNCHANGED <<watchVars, payVars, consentVars, resources, docs, next_id, today, op, req>>

-----------------------------------------------------------------------------
(* app.py: auto_complete_all_medications, the daily job, and the clock *)

\* datetime.fromisoformat(text).date()
DateOfIso(text) ==
    CHOOSE d \in DOMAIN IsoMidnight :
        text \in {IsoMidnight[d], IsoMorning[d], IsoNoon[d]}

DigitStrings == <<"1", "2", "3", "4", "5", "6", "7">>

\* int(note_text.split(":")[1].strip().split()[0]) of "Planned duration: n days"
PlannedDays(note_text) ==
    LET at == CHOOSE i \in DOMAIN note_text : note_text[i].k = "planned"
    IN  CHOOSE n \in DOMAIN DigitStrings : DigitStrings[n] = note_text[at].v

\* "Extract planned duration from note": the first note's text is searched for
\* "Planned duration:", and without it the duration is 1.  No writer of this
\* program puts that phrase in a note.
planned_duration(res) ==
    IF res.note # <<>> /\ \E i \in DOMAIN res.note[1] : res.note[1][i].k = "planned"
    THEN PlannedDays(res.note[1])
    ELSE 1

\* last_day = authored_on + timedelta(days=planned_duration - 1)
last_day(res) == DateOfIso(res.authoredOn[1]) + planned_duration(res) - 1

\* the date test alone, whatever the status
Overdue_AnyStatus(res, clock) == clock > last_day(res)

\* "if today > last_day and res.get("status") != "completed""
Overdue(res, clock) == clock > last_day(res) /\ res.status # "completed"

\* a payload that is the resource as it was read
CompletedPayload_Unchanged(res) == res

\* update_payload of the job: identifier, authoredOn and meta are not in it
CompletedPayload(res) ==
    [id |-> res.id,
     resourceType |-> "MedicationRequest",
     identifier |-> None,
     status |-> "completed",
     subject |-> res.subject,
     authoredOn |-> None,
     name |-> res.name,
     duration |-> res.duration,
     note |-> res.note]

\* every upstream request of the handler on p was answered with success
Answered(p) == \A c \in DOMAIN calls[p] : calls[p][c].status \in 200..299

\* History: the run of the job that ended on p just before this one begins,
\* nothing else having run on p in between: its date and whether the server
\* answered all its requests with success.
PreviousRun(p) ==
    IF op[p] = "auto_complete_all_medications" /\ pc[p] = "done"
    THEN Some([today |-> req[p][1].today, answered |-> Answered(p)])
    ELSE None

auto_complete_begin(p) ==
    /\ Begin(p, "auto_complete_all_medications", [today |-> today], "get",
             [url |-> Some(FirstPage(None, None)), entries |-> <<>>, i |-> 1, today |-> today,
              previous |-> PreviousRun(p)],
             None)
    /\ UNCHANGED <<watchVars, payVars, consentVars, storeVars>>

JobFinished == [finished |-> TRUE, error |-> None]
JobFailed(e) == [finished |-> FALSE, error |-> Some(e)]

\* one turn of "while url": GET url; its entries are scanned next
auto_complete_get(p) ==
    /\ pc[p] = "get" /\ op[p] = "auto_complete_all_medications"
    /\ \E outcome \in GetOutcomes :
          LET l == loc[p][1]
              data == GetData(outcome, l.url[1])
              next == NextLink(data)
          IN  /\ Call(p, "GET", GetStatus(outcome))
              /\ IF outcome = "raise"
                 THEN /\ Return(p, JobFailed("exception"))
                      /\ UNCHANGED loc
                 ELSE /\ loc' = [loc EXCEPT ![p] =
                                    Some([l EXCEPT !.url = next, !.entries = data.entry, !.i = 1])]
                      /\ IF data.entry # <<>>
                         THEN /\ pc' = [pc EXCEPT ![p] = "scan"]
                              /\ UNCHANGED resp
                         ELSE IF IsNone(next) THEN Return(p, JobFinished)
                         ELSE UNCHANGED <<pc, resp>>
    /\ UNCHANGED <<watchVars, payVars, consentVars, storeVars, op, req>>

\* where the job goes after entry i of the page
AfterEntry(p, l) ==
    /\ loc' = [loc EXCEPT ![p] = Some([l EXCEPT !.i = l.i + 1])]
    /\ IF l.i < Len(l.entries) THEN UNCHANGED <<pc, resp>>
       ELSE IF IsNone(l.url) THEN Return(p, JobFinished)
       ELSE /\ pc' = [pc EXCEPT ![p] = "get"]
            /\ UNCHANGED resp

\* one turn of the loop over the page: res["authoredOn"] raises KeyError when
\* the resource has none, which ends the job; an overdue resource that is not
\* completed is rewritten with PUT, whose failure is only printed
auto_complete_scan(p) ==
    /\ pc[p] = "scan" /\ op[p] = "auto_complete_all_medications"
    /\ LET l == loc[p][1]
           res == l.entries[l.i]
       IN  IF IsNone(res.authoredOn)
           THEN /\ Return(p, JobFailed("KeyError: 'authoredOn'"))
                /\ UNCHANGED <<meds, loc, calls>>
           ELSE IF ~Overdue(res, l.today)
           THEN /\ AfterEntry(p, l)
                /\ UNCHANGED <<meds, calls>>
           ELSE \E status \in {200, 500} :
                  /\ Call(p, "PUT", status)
                  /\ meds' = IF status < 400 THEN MedReplaced(CompletedPayload(res)) ELSE meds
                  /\ AfterEntry(p, l)
    /\ UNCHANGED <<watchVars, payVars, consentVars, resources, docs, next_id, today, op, req>>

\* midnight passes
Tick ==
    /\ today < MaxDay
    /\ today' = today + 1
    /\ UNCHANGED <<watchVars, payVars, consentVars, resources, docs, meds, next_id, procVars>>

InitMed == IdleWatch /\ IdlePay /\ IdleConsent /\ IdleStore /\ IdleProcs

\* Requests arrive one after the other.  Dose tracking: prescriptions are
\* posted, doses are recorded and the active medications are read.
NextDose ==
    \/ post_medications_begin("h1")
    \/ post_medications_post("h1")
    \/ update_dose_taken_begin("h1")
    \/ update_dose_taken_get("h1")
    \/ update_dose_taken_put("h1")
    \/ get_active_medications_begin("h1")
    \/ get_active_medications_get("h1")

SpecDose == InitMed /\ [][NextDose]_vars

\* The daily job: prescriptions are posted, days pass and the job runs.
NextAuto ==
    \/ post_medications_begin("h1")
    \/ post_medications_post("h1")
    \/ auto_complete_begin("h1")
    \/ auto_complete_get("h1")
    \/ auto_complete_scan("h1")
    \/ Tick

SpecAuto == InitMed /\ [][NextAuto]_vars

\* The FHIR server answers every request successfully
AllAnswered == \A p \in Procs : Answered(p)

NextServed == NextAuto /\ AllAnswered'

\* a step of the job, answered successfully
JobStep ==
    /\ \/ auto_complete_begin("h1")
       \/ auto_complete_get("h1")
       \/ auto_complete_scan("h1")
    /\ AllAnswered'

\* a step of a request to POST /post_medications that has begun
PostStep == post_medications_post("h1") /\ AllAnswered'

\* The daily job on a server that answers successfully.  The scheduler starts
\* the job again and again (cron, every day at 00:05) whatever requests come in
\* between, so the job's steps are taken again and again (strong fairness: the
\* requests that take their turn on the same worker do not starve it); a
\* request that has begun goes on until it returns.
SpecServed ==
    InitMed /\ [][NextServed]_vars /\ SF_vars(JobStep) /\ WF_vars(PostStep)

\* The FHIR server is a service of its own: the job asks it for every
\* MedicationRequest it holds, and it holds what its other clients stored too.
\* Such a resource is complete (it has its authoredOn) and has any status.
ForeignMedication(status) ==
    [resourceType |-> "MedicationRequest",
     identifier |-> None,
     status |-> status,
     subject |-> Some("U2"),
     authoredOn |-> Some(IsoMorning[1]),
     name |-> "B",
     duration |-> 1,
     note |-> <<>>]

another_client_stores ==
    \E status \in {"stopped", "completed"} :
        /\ next_id <= MaxMeds
        /\ meds' = Append(meds, [id |-> next_id] @@ ForeignMedication(status))
        /\ next_id' = next_id + 1
        /\ UNCHANGED <<watchVars, payVars, consentVars, docs, resources, today, procVars>>

\* The daily job on a server that other clients write to as well.
NextShared ==
    \/ NextAuto
    \/ another_client_stores

SpecShared == InitMed /\ [][NextShared]_vars

\* The store after one active prescription was posted for a patient
InitCare ==
    /\ IdleWatch /\ IdlePay /\ IdleConsent /\ IdleProcs
    /\ docs = <<>> /\ resources = <<>> /\ today = 1
    /\ meds \in { << [id |-> 1] @@ MedicationRequest(uhid, t) >> :
                     uhid \in MedUhids, t \in {v \in TabletValues : v.completed = 0} }
    /\ next_id = 2

\* Dose tracking while the daily job runs: the requests are served by one
\* worker, the scheduler runs the job in a thread of its own, and their
\* upstream calls interleave.
NextCare ==
    \/ update_dose_taken_begin("h1")
    \/ update_dose_taken_get("h1")
    \/ update_dose_taken_put("h1")
    \/ auto_complete_begin("h2")
    \/ auto_complete_get("h2")
    \/ auto_complete_scan("h2")
    \/ Tick

SpecCare == InitCare /\ [][NextCare]_vars

\* Two requests to record a dose are served at the same time (the endpoint is a
\* plain "def", which the framework runs in a thread pool): their upstream
\* calls interleave.
NextRace ==
    \/ update_dose_taken_begin("h1")
    \/ update_dose_taken_get("h1")
    \/ update_dose_taken_put("h1")
    \/ update_dose_taken_begin("h2")
    \/ update_dose_taken_get("h2")
    \/ update_dose_taken_put("h2")

SpecRace == InitCare /\ [][NextRace]_vars

\* str.lower() of a tablet name
Lower(name) == IF name = "A" THEN "a" ELSE name

\* GET {FHIR_URL}/MedicationRequest?identifier=https://hospital.com/uhid|{uhid}&status=active:
\* the stored resources the search matches
IdentifierSearch(uhid) ==
    SelectSeq(meds, LAMBDA r : r.identifier = Some(uhid) /\ r.status = "active")

\* what the client gets for "raise HTTPException(status_code=..., detail=...)"
HTTPException(status_code, detail) == [status |-> status_code, detail |-> detail]

\* delete_active_medicine up to and including its search.  It reads the first
\* page only; the request names no page size, the server puts PageSize entries
\* or more in the page.  A search the server refuses raises HTTPException
\* inside the try, which "except Exception" answers with HTTPException 500, as
\* it does a request that raises (status 0).
delete_active_medicine_search(p) ==
    \E uhid \in MedUhids, tablet_name \in TabletNames, status \in {200, 500, 0} :
        \E n \in PageSize..(PageSize + Len(meds)) :
            LET all == IdentifierSearch(uhid)
                entries == IF status = 200
                           THEN SubSeq(all, 1, IF n < Len(all) THEN n ELSE Len(all))
                           ELSE <<>>
            IN  /\ Free(p)
                /\ op' = [op EXCEPT ![p] = "delete_active_medicine"]
                /\ req' = [req EXCEPT ![p] = Some([uhid |-> uhid, tablet_name |-> tablet_name])]
                /\ calls' = [calls EXCEPT ![p] = << [method |-> "GET", status |-> status] >>]
                /\ loc' = [loc EXCEPT ![p] =
                              Some([entries |-> entries, i |-> 1, deleted |-> <<>>, skipped |-> <<>>])]
                /\ IF status # 200 THEN Return(p, HTTPException(500, "FHIR search failed"))
                   ELSE IF entries = <<>>
                   THEN Return(p, Failure("No active medicines found for this UHID."))
                   ELSE /\ pc' = [pc EXCEPT ![p] = "delete"]
                        /\ resp' = [resp EXCEPT ![p] = None]
                /\ UNCHANGED <<watchVars, payVars, consentVars, storeVars>>

\* the return of delete_active_medicine after its loop
DeleteMedicineAnswer(deleted, skipped) ==
    IF deleted = <<>>
    THEN [success |-> FALSE, message |-> "No active medicine of that name found for UHID.",
          skipped |-> skipped]
    ELSE [success |-> TRUE, message |-> "Deleted record(s) successfully.",
          deleted_medicines |-> deleted]

\* one turn of the loop over entries: an entry of that name, whatever the case
\* of its letters, is sent DELETE {FHIR_URL}/MedicationRequest/{med_id}; a
\* DELETE the server refuses is noted in skipped and the loop goes on
delete_active_medicine_delete(p) ==
    /\ pc[p] = "delete" /\ op[p] = "delete_active_medicine"
    /\ LET l == loc[p][1]
           resource == l.entries[l.i]
           last == l.i = Len(l.entries)
       IN  IF ~(Lower(resource.name) = Lower(req[p][1].tablet_name) /\ resource.status = "active")
           THEN /\ loc' = [loc EXCEPT ![p] = Some([l EXCEPT !.i = l.i + 1])]
                /\ IF last THEN Return(p, DeleteMedicineAnswer(l.deleted, l.skipped))
                   ELSE UNCHANGED <<pc, resp>>
                /\ UNCHANGED <<meds, calls>>
           ELSE \E status \in {204, 500} :
                  LET deleted == IF status \in {200, 204} THEN Append(l.deleted, resource.name)
                                 ELSE l.deleted
                      skipped == IF status \in {200, 204} THEN l.skipped
                                 ELSE Append(l.skipped, [id |-> resource.id, error |-> status])
                  IN  /\ Call(p, "DELETE", status)
                      /\ meds' = IF status \in {200, 204}
                                 THEN SelectSeq(meds, LAMBDA r : r.id # resource.id)
                                 ELSE meds
                      /\ loc' = [loc EXCEPT ![p] =
                                    Some([l EXCEPT !.i = l.i + 1, !.deleted = deleted, !.skipped = skipped])]
                      /\ IF last THEN Return(p, DeleteMedicineAnswer(deleted, skipped))
                         ELSE UNCHANGED <<pc, resp>>
    /\ UNCHANGED <<watchVars, payVars, consentVars, resources, docs, next_id, today, op, req>>

\* Prescriptions are posted and medicines are deleted, one request after the other.
NextDelete ==
    \/ post_medications_begin("h1")
    \/ post_medications_post("h1")
    \/ delete_active_medicine_search("h1")
    \/ delete_active_medicine_delete("h1")

SpecDelete == InitMed /\ [][NextDelete]_vars

\* Prescriptions: they are converted, posted, and the medications of a patient
\* are listed.
NextPage ==
    \/ convert_medications_to_fhir("h1")
    \/ post_medications_begin("h1")
    \/ post_medications_post("h1")
    \/ get_medications_begin("h1")
    \/ get_medications_get("h1")

SpecPage == InitMed /\ [][NextPage]_vars

-----------------------------------------------------------------------------
(* db.py: fhir_surgery_resources; app.py: convert_surgery and post_exercises *)

MaxSurgeries == 1   \* surgeries in one request body
MaxExercises == 2   \* exercises in one request body
MaxResources == 3   \* Patient, Procedure and Task resources the FHIR server holds

\* SurgeryDetails bodies: the two links are optional
SurgeryValues ==
    { [surgery_id |-> "S1", surgery_type |-> "Knee Replacement",
       video_link |-> None, content_link |-> Some("https://content")],
      [surgery_id |-> "S2", surgery_type |-> "Arthritis",
       video_link |-> Some("https://video"), content_link |-> None] }

Patient(uhid) ==
    [resourceType |-> "Patient", id |-> uhid, identifier |-> uhid, active |-> TRUE]

\* the Procedure of one surgery: performedDateTime is datetime.now() at the
\* time of the call, the notes hold the links or "N/A"
Procedure(uhid, s, clock) ==
    [resourceType |-> "Procedure",
     id |-> s.surgery_id,
     identifier |-> uhid,
     status |-> "completed",
     code |-> s.surgery_type,
     subject |-> uhid,
     performedDateTime |-> DateTimeIso(Now(clock)),
     note |-> << <<"Video: ", OrNA(s.video_link)>>, <<"Content: ", OrNA(s.content_link)>> >>]

\* bundle["entry"]: the Patient, then one Procedure per surgery; the mapper
\* reads the clock
fhir_surgery_resources(uhid, surgeries, clock) ==
    << Patient(uhid) >> \o [i \in 1..Len(surgeries) |-> Procedure(uhid, surgeries[i], clock)]

\* convert_surgery: the whole Bundle goes out in one POST {FHIR_URL}/, and the
\* server, when it accepts the transaction, stores all its entries
convert_surgery(p) ==
    \E uhid \in Uhids, surgeries \in SeqsUpTo(SurgeryValues, MaxSurgeries), status \in {200, 500} :
        LET bundle == fhir_surgery_resources(uhid, surgeries, today)
        IN  /\ Len(resources) + Len(bundle) <= MaxResources
            /\ Free(p)
            /\ op' = [op EXCEPT ![p] = "convert_surgery"]
            /\ req' = [req EXCEPT ![p] = Some([uhid |-> uhid, surgeries |-> surgeries])]
            /\ loc' = [loc EXCEPT ![p] = Some([bundle |-> bundle])]
            /\ calls' = [calls EXCEPT ![p] = << [method |-> "POST", status |-> status] >>]
            /\ Return(p, IF status < 400
                         THEN [success |-> TRUE, message |-> "FHIR resources posted successfully."]
                         ELSE Failure("FHIR server returned error"))
            /\ resources' = IF status < 400 THEN resources \o bundle ELSE resources
            /\ UNCHANGED <<watchVars, payVars, consentVars, docs, meds, next_id, today>>

\* ExerciseEntry bodies: the video and the completion time are optional
ExerciseValues ==
    { [name |-> "Squats", exercise_video |-> None, completed_timestamp |-> None],
      [name |-> "Heel Slides", exercise_video |-> Some("https://video"),
       completed_timestamp |-> Some([day |-> 1, hour |-> 8])] }

\* the Task post_exercises builds for one exercise: executionPeriod.end is the
\* completion time or None, "input" is there only with a video
Task(uhid, ex) ==
    LET task == [resourceType |-> "Task",
                 identifier |-> uhid,
                 status |-> IF IsNone(ex.completed_timestamp) THEN "in-progress" ELSE "completed",
                 description |-> ex.name,
                 for |-> uhid,
                 executionPeriod |->
                     [end |-> IF IsNone(ex.completed_timestamp) THEN None
                              ELSE Some(DateTimeIso(ex.completed_timestamp[1]))]]
    IN  IF IsNone(ex.exercise_video) THEN task
        ELSE task @@ [input |-> ex.exercise_video[1]]

ExercisesPosted(n) == [success |-> TRUE, message |-> "exercise(s) posted successfully.", count |-> n]

post_exercises_begin(p) ==
    \E uhid \in Uhids, exercises \in SeqsUpTo(ExerciseValues, MaxExercises) :
        /\ Len(resources) + Len(exercises) <= MaxResources
        /\ Begin(p, "post_exercises", [uhid |-> uhid, exercises |-> exercises],
                 IF exercises = <<>> THEN "done" ELSE "post",
                 [i |-> 1],
                 IF exercises = <<>> THEN Some(ExercisesPosted(0)) ELSE None)
        /\ UNCHANGED <<watchVars, payVars, consentVars, storeVars>>

\* a treatment of 4xx answers as accepted
PostRefused_ServerErrorsOnly(status) == status >= 500

\* "if response.status_code >= 400"
PostRefused(status) == status >= 400

\* one turn of the loop: the Task of exercise i is built and sent with
\* POST {FHIR_URL}/Task; a refusal ends the request
post_exercises_post(p) ==
    /\ pc[p] = "post" /\ op[p] = "post_exercises"
    /\ \E status \in {201, 400, 500} :
          LET l == loc[p][1]
              r == req[p][1]
              task == Task(r.uhid, r.exercises[l.i])
          IN  /\ Call(p, "POST", status)
              /\ IF PostRefused(status)
                 THEN /\ Return(p, Failure("Error posting Task"))
                      /\ UNCHANGED <<resources, next_id, loc>>
                 ELSE /\ resources' = Append(resources, [id |-> next_id] @@ task)
                      /\ next_id' = next_id + 1
                      /\ loc' = [loc EXCEPT ![p] = Some([l EXCEPT !.i = l.i + 1])]
                      /\ IF l.i = Len(r.exercises)
                         THEN Return(p, ExercisesPosted(Len(r.exercises)))
                         ELSE UNCHANGED <<pc, resp>>
    /\ UNCHANGED <<watchVars, payVars, consentVars, docs, meds, today, op, req>>

InitRehab == IdleWatch /\ IdlePay /\ IdleConsent /\ IdleStore /\ IdleProcs

\* Surgeries and exercises are submitted one request after the other, and days pass.
NextRehab ==
    \/ convert_surgery("h1")
    \/ post_exercises_begin("h1")
    \/ post_exercises_post("h1")
    \/ Tick

SpecRehab == InitRehab /\ [][NextRehab]_vars

-----------------------------------------------------------------------------
(* Claims *)

WatchCategories == {"yearly", "monthly", "weekly", "daily"}
WatchCodes == {"Heart Rate", "Step Count", "Sleep Duration"}

MetricOf(entry, code) ==
    IF code = "Heart Rate" THEN entry.heart_rate
    ELSE IF code = "Step Count" THEN entry.step_count
    ELSE entry.sleep_time

\* C4: fhir_watchdata_resources emits, for every list (yearly, monthly, weekly,
\* daily) and every metric, exactly as many Observations as the list has entries
\* whose metric is not None, each carrying a metric value of that list, and
\* nothing else: an all-None entry adds none, an all-present entry adds three.
C4_WatchFanOut ==
    ~IsNone(watch_entries) =>
        LET out == watch_entries[1]
        IN  /\ \A i \in DOMAIN out :
                   /\ out[i].category \in WatchCategories
                   /\ out[i].code \in WatchCodes
                   /\ \E j \in DOMAIN watch_data[out[i].category] :
                          MetricOf(watch_data[out[i].category][j], out[i].code) = Some(out[i].value)
            /\ \A c \in WatchCategories, k \in WatchCodes :
                   Cardinality({ i \in DOMAIN out : out[i].category = c /\ out[i].code = k })
                     = Cardinality({ j \in DOMAIN watch_data[c] :
                                        ~IsNone(MetricOf(watch_data[c][j], k)) })

AllNone(entry) ==
    IsNone(entry.heart_rate) /\ IsNone(entry.step_count) /\ IsNone(entry.sleep_time)
AllPresent(entry) ==
    ~IsNone(entry.heart_rate) /\ ~IsNone(entry.step_count) /\ ~IsNone(entry.sleep_time)

\* a converted body with one all-None entry, one all-present entry and an entry
\* whose only reading is 0: three plus one Observations
C4_Witness ==
    /\ ~IsNone(watch_entries)
    /\ Len(watch_data.yearly) = 1 /\ AllNone(watch_data.yearly[1])
    /\ Len(watch_data.daily) = 1 /\ AllPresent(watch_data.daily[1])
    /\ Len(watch_data.weekly) = 1 /\ watch_data.weekly[1].heart_rate = Some(0)
    /\ IsNone(watch_data.weekly[1].sleep_time)
    /\ watch_data.monthly = <<>>
    /\ Len(watch_entries[1]) = 4

\* C9: every accepted create_order sent the gateway an order of 100 times the
\* request's amount, payment_capture 1 and the request's currency and receipt,
\* and answered with the id the gateway gave that order.
C9_CreateOrder ==
    (~IsNone(pay_req) /\ pay_req[1].kind = "create-order" /\ pay_resp[1].status = 200) =>
        LET sent == orders[Len(orders)]
        IN  /\ sent.amount = 100 * pay_req[1].amount
            /\ sent.payment_capture = 1
            /\ sent.currency = pay_req[1].currency
            /\ sent.receipt = pay_req[1].receipt
            /\ pay_resp[1].order_id = sent.id
            /\ pay_resp[1].success

\* amount 100 became an order of 10000, and its id came back
C9_Witness ==
    /\ ~IsNone(pay_req) /\ pay_req[1].kind = "create-order"
    /\ pay_req[1].amount = 100 /\ pay_req[1].currency = "INR" /\ pay_req[1].receipt = "r1"
    /\ pay_resp[1].status = 200
    /\ orders[Len(orders)].amount = 10000
    /\ pay_resp[1].order_id = orders[Len(orders)].id

SignedByGateway(r) ==
    r.razorpay_signature = Hmac(RAZORPAY_KEY_SECRET, r.razorpay_order_id, r.razorpay_payment_id)

\* C10: verify_payment answers success only for a signature made with the
\* gateway secret over this order and payment; for any other signature it
\* answers 400 "Invalid payment signature".
C10_VerifyPayment ==
    (~IsNone(pay_req) /\ pay_req[1].kind = "verify-payment") =>
        /\ (pay_resp[1].status = 200) => SignedByGateway(pay_req[1])
        /\ ~SignedByGateway(pay_req[1]) =>
               /\ pay_resp[1].status = 400
               /\ pay_resp[1].detail = "Invalid payment signature"

\* a signature made with another secret was refused
C10_Witness ==
    /\ ~IsNone(pay_req) /\ pay_req[1].kind = "verify-payment"
    /\ pay_req[1].razorpay_signature
         = Hmac("other-secret", pay_req[1].razorpay_order_id, pay_req[1].razorpay_payment_id)
    /\ pay_resp[1].status = 400

IsConsentGet(r) ==
    r.endpoint \in {"GET /fhir/consent-form-status", "GET /fhir/consent-form"}

\* the stored Consent resources of a uhid that carry a tag
TaggedConsents(uhid, tag_code) ==
    { i \in DOMAIN consents :
        consents[i].identifier = uhid /\ consents[i].tag = tag_code }

\* a is lexicographically smaller than b: they agree before some place k of b,
\* where a has ended or has a smaller character
LexSmaller(a, b) ==
    \E k \in 1..Len(b) :
        /\ \A j \in 1..(k - 1) : j <= Len(a) /\ a[j] = b[j]
        /\ (k = Len(a) + 1 \/ (k <= Len(a) /\ a[k] < b[k]))

\* C5: when GET /fhir/consent-form-status/{uhid} answers 200, its data is a
\* stored Consent of that uhid tagged ConsentFormStatus, and no Consent of that
\* uhid with that tag has a dateTime string lexicographically greater.
C5_LatestConsentStatus ==
    (~IsNone(consent_resp)
       /\ consent_resp[1].endpoint = "GET /fhir/consent-form-status"
       /\ consent_resp[1].status = 200) =>
        LET data == consent_resp[1].answer.data
            cands == TaggedConsents(consent_resp[1].uhid, "ConsentFormStatus")
        IN  /\ \E i \in cands : consents[i] = data
            /\ \A i \in cands :
                   ~LexSmaller(DateTimeKey(data), DateTimeKey(consents[i]))

Jan1 == ConsentIso([day |-> 1, hour |-> 0, micro |-> 0])
Jan1Frac == ConsentIso([day |-> 1, hour |-> 0, micro |-> 5])
Jan2 == ConsentIso([day |-> 2, hour |-> 0, micro |-> 0])

\* statuses dated 2025-01-01T00:00:00, 2025-01-01T00:00:00.5 and
\* 2025-01-02T00:00:00 are stored for the uhid, and the one of 2025-01-02 is returned
C5_Witness ==
    /\ ~IsNone(consent_resp)
    /\ consent_resp[1].endpoint = "GET /fhir/consent-form-status"
    /\ consent_resp[1].status = 200
    /\ LET cands == TaggedConsents(consent_resp[1].uhid, "ConsentFormStatus")
       IN  /\ \E i, j, k \in cands :
                  /\ i < j /\ j < k
                  /\ consents[i].dateTime = Some(Jan1)
                  /\ consents[j].dateTime = Some(Jan2)
                  /\ consents[k].dateTime = Some(Jan1Frac)
           /\ consent_resp[1].answer.data.dateTime = Some(Jan2)

\* C6 as stated: a consent GET whose upstream search answered 200 with no entry
\* of the uhid, or none with the requested tag, is answered with HTTP 404.
C6_NotFoundIs404 ==
    (~IsNone(consent_resp) /\ IsConsentGet(consent_resp[1])
       /\ consent_resp[1].upstream = 200
       /\ TaggedConsents(consent_resp[1].uhid, consent_resp[1].tag) = {}) =>
        consent_resp[1].status = 404

\* C8: a delete_preop_document whose search was answered with zero entries
\* returns success false and has issued no DELETE: its only upstream request is
\* the search.
C8_DeleteNothingFound ==
    \A p \in Procs :
        (op[p] = "delete_preop_document" /\ calls[p][1].status < 400
           /\ loc[p][1].entries = <<>>) =>
            /\ pc[p] = "done"
            /\ ~resp[p][1].success
            /\ calls[p] = << [method |-> "GET", status |-> calls[p][1].status] >>

\* documents of another name are stored, the search for the requested name
\* matched nothing, and the request has returned
C8_Witness ==
    /\ op["h1"] = "delete_preop_document" /\ pc["h1"] = "done"
    /\ calls["h1"][1].status = 200
    /\ loc["h1"][1].entries = <<>>
    /\ \E i \in DOMAIN docs :
          docs[i].subject = req["h1"][1].uhid /\ docs[i].type_text # req["h1"][1].document_name

\* the dict a DoseEntry stands for: day as ISO date, period, and taken_timestamp
\* as ISO datetime or null
OriginalDose(d) ==
    [day |-> IsoDate[d.day],
     period |-> d.period,
     taken_timestamp |-> IF IsNone(d.taken_timestamp) THEN None
                         ELSE Some(DateTimeIso(d.taken_timestamp[1]))]

\* C1 as stated: for every tablet of a converted body, json.loads of the note
\* text the mapper wrote decodes, and gives the tablet's doses_taken list.
C1_DosesRoundTrip ==
    \A p \in Procs :
        (op[p] = "convert_medications_to_fhir" /\ pc[p] = "done") =>
            LET tablets == req[p][1].tablets
                bundle == resp[p][1].fhir_bundle
            IN  \A i \in DOMAIN bundle :
                    LET loaded == JsonLoads(bundle[i].note[1])
                    IN  /\ loaded.ok
                        /\ loaded.value = [j \in 1..Len(tablets[i].doses_taken) |->
                                              OriginalDose(tablets[i].doses_taken[j])]

\* C2 as stated: the job turns an active MedicationRequest authored on D with
\* duration n into a completed one only in a run of a date after D + n - 1.
C2_CompletedOnlyAfterLastDay ==
    [][ \A p \in Procs : \A r \in Range(meds), r2 \in Range(meds') :
          (/\ pc[p] = "scan" /\ op[p] = "auto_complete_all_medications"
           /\ r.id = r2.id /\ r.status = "active" /\ r2.status = "completed")
          => loc[p][1].today > DateOfIso(r.authoredOn[1]) + r.duration - 1 ]_vars

\* the (day, period) pairs of the doses a note text holds
NotePairs(text) ==
    { <<d.day, d.period>> : d \in Range(JsonLoads(text).value) }

\* C3 as stated: in every stored MedicationRequest, the list written by the
\* last dose update holds an entry for the (day, period) of every list an
\* earlier update wrote.
C3_LastListHasEveryDose ==
    \A r \in Range(meds) :
        \A k \in 2..Len(r.note) : NotePairs(r.note[k]) \subseteq NotePairs(r.note[Len(r.note)])

\* the pages of a search, by count: as many as the listing fills, and at least one
PageCount(query) ==
    IF Listing(query) = <<>> THEN 1
    ELSE (Len(Listing(query)) + PageSize - 1) \div PageSize

AllPageEntries(query) ==
    Flatten([k \in 1..PageCount(query) |-> Page([query |-> query, page |-> k]).entry])

\* C7: a get_medications whose page requests were all answered 200 has
\* requested every page of the search once, and returns success with the
\* entries of all the pages, concatenated in page order.
C7_AllPagesDrained ==
    \A p \in Procs :
        (/\ op[p] = "get_medications" /\ pc[p] = "done"
         /\ \A c \in DOMAIN calls[p] : calls[p][c].status = 200) =>
            LET query == [subject |-> Some(req[p][1].uhid), status |-> None]
            IN  /\ resp[p][1].success
                /\ resp[p][1].medications = AllPageEntries(query)
                /\ Len(calls[p]) = PageCount(query)

\* two pages were fetched and both their entries came back
C7_Witness ==
    /\ op["h1"] = "get_medications" /\ pc["h1"] = "done"
    /\ Len(calls["h1"]) = 2
    /\ \A c \in DOMAIN calls["h1"] : calls["h1"][c].status = 200
    /\ Len(resp["h1"][1].medications) = 2
    /\ resp["h1"][1].medications[1].id # resp["h1"][1].medications[2].id

\* C11 as stated: a handler that got an answer outside 2xx from the FHIR server
\* (or no answer) reports a failure: its result never says success.
C11_UpstreamErrorIsFailure ==
    \A p \in Procs :
        (/\ pc[p] = "done"
         /\ \E c \in DOMAIN calls[p] : calls[p][c].status \notin 200..299) =>
            ~resp[p][1].success

\* C12 as stated: a convert_surgery that succeeded has sent its mapper's Bundle
\* as one POST per entry: as many POST requests as the Bundle has entries.
C12_OnePostPerEntry ==
    \A p \in Procs :
        (op[p] = "convert_surgery" /\ pc[p] = "done" /\ resp[p][1].success) =>
            /\ Len(calls[p]) = Len(loc[p][1].bundle)
            /\ \A c \in DOMAIN calls[p] : calls[p][c].method = "POST"

C14_OnlyActiveIsModified ==
    [][ \A p \in Procs :
          (pc[p] = "scan" /\ op[p] = "auto_complete_all_medications") =>
              \A i \in DOMAIN meds :
                  (i \in DOMAIN meds' /\ meds'[i] # meds[i]) => meds[i].status = "active" ]_vars

\* the resource the job is looking at
Scanned(p) == loc[p][1].entries[loc[p][1].i]

\* C15: when a step of the job issues a PUT, the MedicationRequest it read, and
\* the stored one of that id, do not have the status completed.
C15_NoPutForCompleted ==
    [][ \A p \in Procs :
          (/\ op[p] = "auto_complete_all_medications" /\ pc[p] = "scan"
           /\ Len(calls'[p]) = Len(calls[p]) + 1
           /\ calls'[p][Len(calls'[p])].method = "PUT") =>
              /\ Scanned(p).status # "completed"
              /\ \A m \in Range(meds) : m.id = Scanned(p).id => m.status # "completed" ]_vars

\* a run has finished that read a completed MedicationRequest authored before
\* its date, and it issued no PUT
C15_Witness ==
    /\ op["h1"] = "auto_complete_all_medications" /\ pc["h1"] = "done"
    /\ resp["h1"][1].finished
    /\ \A c \in DOMAIN calls["h1"] : calls["h1"][c].method = "GET" /\ calls["h1"][c].status = 200
    /\ \E i \in DOMAIN meds :
          /\ i <= Len(calls["h1"])
          /\ meds[i].status = "completed"
          /\ ~IsNone(meds[i].authoredOn)
          /\ loc["h1"][1].today > DateOfIso(meds[i].authoredOn[1])

\* the stored MedicationRequest of index i is active and the date is past its
\* last day, authoredOn + duration_days - 1
ActivePastLastDay(i) ==
    /\ i \in DOMAIN meds
    /\ meds[i].status = "active"
    /\ ~IsNone(meds[i].authoredOn)
    /\ today > DateOfIso(meds[i].authoredOn[1]) + meds[i].duration - 1

\* C16 as stated: under repeated runs of the job on a server that answers
\* successfully, a MedicationRequest that is active and past its last day is
\* eventually completed.
C16_OverdueEventuallyCompleted ==
    \A i \in 1..MaxMeds :
        ActivePastLastDay(i) ~> (i \in DOMAIN meds /\ meds[i].status = "completed")

\* the job on p is in a run that follows a run of the same date, with no
\* write in between
SecondRunSameDate(p) ==
    /\ op[p] = "auto_complete_all_medications"
    /\ loc[p] # <<>>
    /\ ~IsNone(loc[p][1].previous)
    /\ loc[p][1].previous[1].today = loc[p][1].today

\* the step leaves every MedicationRequest as it was and issues no PUT
NoPutNoChange(p) ==
    /\ meds' = meds
    /\ \A c \in DOMAIN calls'[p] : c > Len(calls[p]) => calls'[p][c].method # "PUT"

C18_ConsentIntegersAreMapped ==
    (consent_resp # <<>> /\ consent_resp[1].endpoint = "POST /fhir/consent-form-status") =>
        LET r == consent_resp[1]
            b == r.body[1]
        IN  /\ r.status = 200
            /\ r.success =>
                 LET c == consents[Len(consents)]
                 IN  /\ c.status = (IF b.status = 1 THEN "active" ELSE "draft")
                     /\ c.approval = (IF b.approval = 1 THEN "active"
                                      ELSE IF b.approval = 2 THEN "rejected" ELSE "draft")
                     /\ c.provision_type = (IF b.validation = 1 THEN "permit" ELSE "deny")

\* C19 as stated, for the Tasks POST /post_exercises builds: no Task sent to
\* the FHIR server has a null executionPeriod.end; an exercise that is not
\* completed has a non-null string there, or the field is left out.
C19_NoNullField ==
    \A i \in DOMAIN resources :
        resources[i].resourceType = "Task" =>
            ("end" \in DOMAIN resources[i].executionPeriod =>
                 ~IsNone(resources[i].executionPeriod.end))

\* C20 as stated, for fhir_surgery_resources: a call with the same uhid and the
\* same surgeries as the call before it returns the same bundle, whatever the
\* time of the two calls.
C20_SameInputSameBundle ==
    [][ \A p \in Procs :
          (/\ op[p] = "convert_surgery" /\ pc[p] = "done"
           /\ op'[p] = "convert_surgery"
           /\ req'[p] = req[p]) => loc'[p][1].bundle = loc[p][1].bundle ]_vars

C22_ExceptionBecomesFailure ==
    \A p \in Procs :
        (/\ pc[p] = "done"
         /\ resp[p] # <<>>
         /\ \E c \in DOMAIN calls[p] : calls[p][c].status = 0) =>
            /\ "success" \in DOMAIN resp[p][1]
            /\ resp[p][1].success = FALSE

\* the stored MedicationRequest of that id
StoredMed(id) == CHOOSE m \in Range(meds) : m.id = id

\* the active MedicationRequests of the patient, as the server lists them
ActiveOf(uhid) == SelectSeq(meds, LAMBDA m : m.subject = Some(uhid) /\ m.status = "active")

\* C23: a GET /fhir/medications/active/{uhid} that the server answered returns
\* success true with one entry per active MedicationRequest of the patient, and
\* the entry of a medication whose first note text is not valid JSON has
\* doses_taken equal to the one-element list holding that text.
C23_MalformedNoteIsReported ==
    \A p \in Procs :
        (op[p] = "get_active_medications" /\ pc[p] = "done" /\ Answered(p)) =>
            LET r == resp[p][1]
                listed == ActiveOf(req[p][1].uhid)
            IN  /\ r.success
                /\ Len(r.active_medications) = Len(listed)
                /\ \A k \in DOMAIN r.active_medications :
                      LET a == r.active_medications[k]
                          note_text == listed[k].note[1]
                      IN  /\ a.id = listed[k].id
                          /\ ~JsonLoads(note_text).ok =>
                                a.doses_taken = [decoded |-> FALSE, list |-> << note_text >>]

\* two active medications were reported, one with a note that is not valid
\* JSON and one with a note that is
C23_Witness ==
    /\ op["h1"] = "get_active_medications" /\ pc["h1"] = "done" /\ Answered("h1")
    /\ Len(resp["h1"][1].active_medications) = 2
    /\ \E k \in 1..2 : ~resp["h1"][1].active_medications[k].doses_taken.decoded
    /\ \E k \in 1..2 : resp["h1"][1].active_medications[k].doses_taken.decoded

\* the call on p has returned success after rewriting one MedicationRequest
DoseRecorded(p) ==
    /\ op[p] = "update_dose_taken" /\ pc[p] = "done"
    /\ resp[p] # <<>> /\ resp[p][1].success
    /\ "updated_count" \in DOMAIN resp[p][1] /\ resp[p][1].updated_count = 1

\* the (day, period) the call on p was asked to record
AskedPair(p) == << DateIso(req[p][1].body.dose_day), req[p][1].body.dose_period >>

\* C24: no version check rejects a stale write.  A PUT of update_dose_taken
\* that the server accepts stores the resource the call built from the copy it
\* read (the notes it read, plus one), whatever was stored in between; the
\* last PUT wins.
C24_StaleWriteIsStored ==
    [][ \A p \in Procs :
          (/\ op[p] = "update_dose_taken" /\ pc[p] = "put"
           /\ Len(calls'[p]) = Len(calls[p]) + 1
           /\ calls'[p][Len(calls'[p])] = [method |-> "PUT", status |-> 200]) =>
              LET read == loc[p][1].all_medications[loc[p][1].i]
              IN  \E m \in Range(meds') :
                     /\ m.id = read.id
                     /\ m.status = read.status
                     /\ Len(m.note) = Len(read.note) + 1
                     /\ SubSeq(m.note, 1, Len(read.note)) = read.note ]_vars

\* two calls for different (day, period) pairs have both returned success, and
\* no note of the stored resource holds the dose of one of them
C24_Witness ==
    \E p \in Procs, q \in Procs :
        /\ p # q
        /\ DoseRecorded(p) /\ DoseRecorded(q)
        /\ AskedPair(p) # AskedPair(q)
        /\ \E m \in Range(meds) :
              /\ m.name = req[p][1].body.tablet_name
              /\ \A k \in DOMAIN m.note : AskedPair(p) \notin NotePairs(m.note[k])

\* the entries of all_medications, among the first n, that update_dose_taken
\* on p rewrites: those of the tablet name asked for
MatchesUpTo(p, n) ==
    { k \in 1..n : loc[p][1].all_medications[k].name = req[p][1].body.tablet_name }

\* the call on p has ended at a PUT the server refused
EndedAtRefusedPut(p) ==
    /\ op[p] = "update_dose_taken" /\ pc[p] = "done"
    /\ calls[p] # <<>>
    /\ calls[p][Len(calls[p])].method = "PUT"
    /\ calls[p][Len(calls[p])].status >= 400

\* C25: when the PUT of the k-th matching MedicationRequest is refused,
\* update_dose_taken returns success false, the k-1 matches before it are
\* stored with one more note than was read, and the k-th and the matches after
\* it are stored as they were read: no PUT was sent for those after the k-th.
C25_RefusedPutEndsTheLoop ==
    \A p \in Procs :
        EndedAtRefusedPut(p) =>
            LET l == loc[p][1]
                all == l.all_medications
                puts == { c \in DOMAIN calls[p] : calls[p][c].method = "PUT" }
            IN  /\ resp[p][1].success = FALSE
                /\ l.i \in MatchesUpTo(p, Len(all))
                /\ Cardinality(puts) = Cardinality(MatchesUpTo(p, l.i))
                /\ \A k \in MatchesUpTo(p, Len(all)) :
                      \E m \in Range(meds) :
                         /\ m.id = all[k].id
                         /\ IF k < l.i
                            THEN /\ Len(m.note) = Len(all[k].note) + 1
                                 /\ SubSeq(m.note, 1, Len(all[k].note)) = all[k].note
                            ELSE m = all[k]

\* two MedicationRequests matched; the first was rewritten and the PUT of the
\* second was refused
C25_Witness ==
    /\ EndedAtRefusedPut("h1")
    /\ loc["h1"][1].i = 2
    /\ MatchesUpTo("h1", 2) = {1, 2}

\* the (day, period) pairs of the doses an entry of the answer reports
ReportedPairs(a) ==
    IF a.doses_taken.decoded
    THEN { <<d.day, d.period>> : d \in Range(a.doses_taken.list) }
    ELSE {}

\* C26 as stated: GET /fhir/medications/active/{uhid} reports, for each
\* medication, a doses_taken list with an entry for every (day, period) that
\* an update_dose_taken before it recorded (the pairs of the notes the updates
\* appended).
C26_RecordedDoseIsReported ==
    \A p \in Procs :
        (op[p] = "get_active_medications" /\ pc[p] = "done" /\ Answered(p)) =>
            \A k \in DOMAIN resp[p][1].active_medications :
                LET a == resp[p][1].active_medications[k]
                    m == StoredMed(a.id)
                IN  \A n \in 2..Len(m.note) : NotePairs(m.note[n]) \subseteq ReportedPairs(a)

\* C27 as stated: after any dose updates and runs of the job, every stored
\* MedicationRequest has the authoredOn and the https://hospital.com/uhid
\* identifier it was created with.
C27_AuthoredOnAndIdentifierKept ==
    \A i \in DOMAIN meds :
        /\ \E t \in TabletValues :
              meds[i].authoredOn = Some(DateTimeIso(CombineMidnight(t.prescribed_date)))
        /\ \E uhid \in MedUhids : meds[i].identifier = Some(uhid)

\* C28 as stated: a MedicationRequest that is stored as completed stays
\* completed, however the dose updates and the runs of the job interleave.
C28_CompletedStaysCompleted ==
    [][ \A m \in Range(meds) :
          m.status = "completed" =>
              \A m2 \in Range(meds') : m2.id = m.id => m2.status = "completed" ]_vars

\* C29 as stated: a resource of the listing does not stop the scan; the run of
\* the job ends in its loop over the entries only after the last entry of the
\* last page.
C29_ScanGoesOn ==
    [][ \A p \in Procs :
          (/\ op[p] = "auto_complete_all_medications"
           /\ pc[p] = "scan" /\ pc'[p] = "done") =>
              /\ loc[p][1].i = Len(loc[p][1].entries)
              /\ IsNone(loc[p][1].url) ]_vars

\* C30 as stated: when DELETE /fhir/delete-active-medicine answers success
\* true, no MedicationRequest of the page it searched that is active and of
\* that name (whatever the case of its letters) is still stored.
C30_SuccessMeansAllDeleted ==
    \A p \in Procs :
        (/\ op[p] = "delete_active_medicine" /\ pc[p] = "done"
         /\ "success" \in DOMAIN resp[p][1] /\ resp[p][1].success) =>
            \A k \in DOMAIN loc[p][1].entries :
                LET e == loc[p][1].entries[k]
                IN  (Lower(e.name) = Lower(req[p][1].tablet_name) /\ e.status = "active") =>
                        \A m \in Range(meds) : m.id # e.id

====
